---- MODULE Spec2Model ----
(***************************************************************************)
(* Model of the Omec-Charm operators.                                      *)
(*                                                                         *)
(*   src/charm/spgwu/src/resources.py  SpgwuResources: the desired-state   *)
(*       descriptors (_services, _configmaps) and the reconciler           *)
(*       (apply, delete) over the cluster API.                             *)
(*   src/charm/spgwc/src/charm.py      SpgwcCharm: the lifecycle handlers  *)
(*       (_on_install, _on_config_changed, _on_remove), the privilege      *)
(*       probe (_k8s_auth) and the StatefulSet patcher.                    *)
(*                                                                         *)
(* The cluster is the environment: a namespace holding a set of Services,  *)
(* a set of ConfigMaps and the application's StatefulSet.  Every handler   *)
(* runs to completion before the next one starts (the operator framework   *)
(* dispatches one event at a time), so a handler is one action; the API    *)
(* calls it issued are kept in `calls`, in order, with their answers.      *)
(***************************************************************************)
EXTENDS Integers, Sequences, FiniteSets, TLC

VARIABLES
    files,        \* static file tree of the charm: directory -> (basename -> content)
    cluster,      \* [services, configmaps]: the objects of the namespace
    sts,          \* the live StatefulSet of the application
    trusted,      \* whether the service account may list cluster roles (juju trust)
    authed,       \* SpgwcCharm._authed of the running charm process
    status,       \* self.unit.status
    deferred,     \* event kinds deferred and waiting for re-delivery
    handler,      \* the operation handled last
    delivery,     \* how it was started: "direct", "emit" or "redeliver"
    outcome,      \* how it ended: "ok", "deferred" or "raised"
    calls,        \* the API calls of the last operation, in order
    before,       \* the namespace (cluster) when the last operation started
    applied,      \* whether the operation before the last one was a call of apply() that returned normally
    patchCalls,   \* number of patch_namespaced_stateful_set calls issued so far
    patchOks,     \* number of those that succeeded
    workload,     \* the workload container: files pushed, Pebble layer, service
    conc,         \* reconcilers that run config-changed side by side, call by call
    loop          \* one run of add_container_resource_limit

vars == <<files, cluster, sts, trusted, authed, status, deferred, handler, delivery,
          outcome, calls, before, applied, patchCalls, patchOks, workload, conc, loop>>

\* The parts of the state that the events of the cluster leave alone.
aside == <<workload, conc, loop>>

----------------------------------------------------------------------------
(* Bounds of the model *)

\* A behaviour is followed up to this many failed, and this many successful,
\* patch calls on the StatefulSet.
MaxPatchCalls == 2

----------------------------------------------------------------------------
(* Program constants *)

ServicePort == 8085
ServiceNodePort == 30020

ServiceName == "spgwu-dp-comm"
ConfigMapName == "spgwu"

\* The three glob patterns of SpgwuResources.__init__.
script_path == "src/files/Script/*.*"
configPath == "src/files/Config/*.*"
runscriptPath == "src/files/*.*"

Paths == {script_path, configPath, runscriptPath}

\* Basenames the file tree may hold, and what a file may contain.
FileNames == {"setup-af-iface.sh", "dp.json", "run.sh"}
Absent == "absent"
Contents == {"v1", "v2"}

\* A dict basename -> content, as a total function (Absent: no such key).
NoData == [f \in FileNames |-> Absent]

----------------------------------------------------------------------------
(* Desired state: resources.py, _services and _configmaps *)

\* _get_config_data(files_path): the files the glob matches, keyed by basename.
_get_config_data(fs, files_path) == fs[files_path]

_services ==
    << [ kind |-> "Service",
         name |-> ServiceName,
         body |-> [ type      |-> "NodePort",
                    protocol  |-> "UDP",
                    port      |-> ServicePort,
                    node_port |-> ServiceNodePort ] ] >>

\* The three dicts are loaded; only dict_script reaches the one ConfigMap.
_configmaps(fs) ==
    LET dict_script    == _get_config_data(fs, script_path)
        dict_config    == _get_config_data(fs, configPath)
        dict_runscript == _get_config_data(fs, runscriptPath)
    IN  << [ kind |-> "ConfigMap",
             name |-> ConfigMapName,
             body |-> [ data |-> dict_script ] ] >>

----------------------------------------------------------------------------
(* The cluster API, as the handlers use it *)

NoBody == [ none |-> TRUE ]

Table(cl, kind) == IF kind = "Service" THEN cl.services ELSE cl.configmaps

WithTable(cl, kind, t) ==
    IF kind = "Service" THEN [cl EXCEPT !.services = t]
                        ELSE [cl EXCEPT !.configmaps = t]

\* list_namespaced_*(field_selector = "metadata.name=<name>").items
Items(cl, kind, name) == { o \in Table(cl, kind) : o.name = name }

\* A patch overwrites the fields the body sets and keeps the others:
\* a Service's spec is replaced, a ConfigMap's data is merged key by key.
Patched(kind, o, body) ==
    IF kind = "Service"
    THEN [o EXCEPT !.body = body]
    ELSE [o EXCEPT !.body = [ data |-> [ f \in FileNames |->
                                IF body.data[f] # Absent THEN body.data[f]
                                ELSE o.body.data[f] ] ] ]

\* The answer of the API server to one call, when the call is not made to fail.
Answer(cl, verb, kind, name) ==
    CASE verb = "list"   -> "ok"
      [] verb = "create" -> IF Items(cl, kind, name) = {} THEN "ok" ELSE "409"
      [] verb = "patch"  -> IF Items(cl, kind, name) = {} THEN "404" ELSE "ok"
      [] verb = "delete" -> IF Items(cl, kind, name) = {} THEN "404" ELSE "ok"

\* The namespace after a call that the API server accepted.
Effect(cl, verb, kind, name, body) ==
    CASE verb = "list"   -> cl
      [] verb = "create" ->
           WithTable(cl, kind, Table(cl, kind) \cup
                     { [name |-> name, body |-> body, extra |-> "default"] })
      [] verb = "patch"  ->
           WithTable(cl, kind, { IF o.name = name THEN Patched(kind, o, body) ELSE o
                                 : o \in Table(cl, kind) })
      [] verb = "delete" ->
           WithTable(cl, kind, { o \in Table(cl, kind) : o.name # name })

\* Statement sequencing: F applied to the value of x, x evaluated once.
Then(x, F(_)) == CHOOSE r \in { F(v) : v \in {x} } : TRUE

\* One API call of a running operation.  st = [cl, calls, raised, failAt]:
\* the namespace, the calls so far, the error raised ("none" while running)
\* and the index of the call the environment makes fail with a server
\* error (0: none).  A call that is answered with an error changes nothing
\* and raises ApiException.
Call(st, verb, kind, name, body) ==
    Then(IF Len(st.calls) + 1 = st.failAt THEN "500"
         ELSE Answer(st.cl, verb, kind, name),
         LAMBDA code :
           [ st EXCEPT
               !.cl     = IF code = "ok" THEN Effect(st.cl, verb, kind, name, body) ELSE @,
               !.calls  = Append(@, [verb |-> verb, kind |-> kind, name |-> name,
                                     body |-> body, code |-> code]),
               !.raised = IF code = "ok" THEN "none" ELSE code ])

----------------------------------------------------------------------------
(* The reconciler: resources.py, apply and delete *)

\* Variants of Mutation with a slip in the test of the listed items.
Mutation_AlwaysCreate(items) == "create"
Mutation_Inverted(items) == IF items = {} THEN "patch" ELSE "create"

\* The choice of apply between create and patch, from the listed items.
Mutation(items) == IF items = {} THEN "create" ELSE "patch"

\* The body of one iteration of either loop of apply.
ApplyDescriptor(st, d) ==
    Then(Call(st, "list", d.kind, d.name, NoBody),
         LAMBDA listed :
           IF listed.raised # "none" THEN listed
           ELSE Call(listed, Mutation(Items(listed.cl, d.kind, d.name)),
                     d.kind, d.name, d.body))

\* The body of one iteration of either loop of delete.
DeleteDescriptor(st, d) == Call(st, "delete", d.kind, d.name, NoBody)

\* A for loop over the descriptors ds; an exception ends it.
RECURSIVE ApplyEach(_, _)
ApplyEach(st, ds) ==
    IF ds = <<>> \/ st.raised # "none" THEN st
    ELSE Then(ApplyDescriptor(st, Head(ds)), LAMBDA next : ApplyEach(next, Tail(ds)))

RECURSIVE DeleteEach(_, _)
DeleteEach(st, ds) ==
    IF ds = <<>> \/ st.raised # "none" THEN st
    ELSE Then(DeleteDescriptor(st, Head(ds)), LAMBDA next : DeleteEach(next, Tail(ds)))

\* A variant of apply that undoes what it wrote when a call fails.
apply_RollsBack(st, fs) ==
    Then(Then(ApplyEach(st, _services),
              LAMBDA served : ApplyEach(served, _configmaps(fs))),
         LAMBDA done : IF done.raised # "none" THEN [done EXCEPT !.cl = st.cl] ELSE done)

\* apply(): every Service, then every ConfigMap.
apply(st, fs) ==
    Then(ApplyEach(st, _services), LAMBDA served : ApplyEach(served, _configmaps(fs)))

\* A variant of delete that stops after the Services.
delete_ServicesOnly(st, fs) == DeleteEach(st, _services)

\* delete(): every Service, then every ConfigMap.
delete(st, fs) ==
    Then(DeleteEach(st, _services), LAMBDA served : DeleteEach(served, _configmaps(fs)))

\* The state of one running operation: the namespace and the StatefulSet as
\* the operation has left them so far, the charm's own fields, the calls
\* issued, the exception raised ("none" while running), whether event.defer()
\* was called, the value _k8s_auth returned, and the environment's choices
\* (may: whether the probe is permitted; failAt: the call made to fail),
\* and the workload container.
Start(failAt) ==
    [ cl |-> cluster, sts |-> sts, status |-> status, authed |-> authed,
      calls |-> <<>>, raised |-> "none", defer |-> FALSE, ret |-> FALSE,
      may |-> trusted, failAt |-> failAt, wl |-> workload ]

----------------------------------------------------------------------------
(* The StatefulSet and its patch: charm.py, lines 85-133 *)

\* containers[1] of the source, in a sequence that counts from 1.
ContainerIndex == 1
Target == ContainerIndex + 1

\* The env var _statefulset_patched looks for: equality of V1EnvVar is
\* structural, the name and the source both count.
expected == [ name |-> "MME_ADDR", source |-> "configmap:mme-ip/IP" ]

\* SpgwcResources.spgwc_add_env and add_spgwc_init_containers (the spgwc
\* resources module): the env entries and init-containers of the patch.
spgwc_add_env == << expected, [ name |-> "MEM_LIMIT", source |-> "field:limits.memory" ] >>
add_spgwc_init_containers == << "spgwc-dep-check" >>

Limits == [ limits   |-> [ cpu |-> "2", memory |-> "2Gi" ],
            requests |-> [ cpu |-> "2", memory |-> "2Gi" ] ]
NoLimits == [ limits   |-> [ cpu |-> "", memory |-> "" ],
              requests |-> [ cpu |-> "", memory |-> "" ] ]

InSeq(x, s) == \E i \in 1..Len(s) : s[i] = x

\* Variants of HasSentinel: one looks at containers[0], one compares the
\* names only.
HasSentinel_FirstContainer(s) == InSeq(expected, s.containers[ContainerIndex].env)
HasSentinel_NameOnly(s) ==
    \E i \in 1..Len(s.containers[Target].env) :
        s.containers[Target].env[i].name = expected.name

\* A variant that also asks for the limits of the patch.
HasSentinel_AndLimits(s) ==
    /\ InSeq(expected, s.containers[Target].env)
    /\ s.containers[Target].resources = Limits

\* `expected in s.spec.template.spec.containers[1].env`
HasSentinel(s) == InSeq(expected, s.containers[Target].env)

\* read_namespaced_stateful_set / patch_namespaced_stateful_set in a handler
\* that runs alone: nothing changes the object between its read and its
\* patch, and the server stores the body it is given.
StsCall(st, verb, body) ==
    Then(IF Len(st.calls) + 1 = st.failAt THEN "500" ELSE "ok",
         LAMBDA code :
           [ st EXCEPT
               !.sts    = IF code = "ok" /\ verb = "patch" THEN body ELSE @,
               !.calls  = Append(@, [verb |-> verb, kind |-> "StatefulSet", name |-> "spgwc",
                                     body |-> body, code |-> code]),
               !.raised = IF code = "ok" THEN "none" ELSE code ])

\* A variant of PatchBody that sets the limits of every container.
PatchBody_EveryContainer(s) ==
    [ s EXCEPT
        !.containers = [ j \in DOMAIN @ |->
                           IF j = Target
                           THEN [ @[j] EXCEPT !.env = @ \o spgwc_add_env,
                                              !.resources = Limits,
                                              !.stdin = TRUE, !.tty = TRUE ]
                           ELSE [ @[j] EXCEPT !.resources = Limits ] ],
        !.init_containers = @ \o add_spgwc_init_containers ]

\* The object _patch_stateful_set builds from the StatefulSet it has read.
PatchBody(s) ==
    [ s EXCEPT
        !.containers[Target].env       = @ \o spgwc_add_env,
        !.init_containers              = @ \o add_spgwc_init_containers,
        !.containers[Target].resources = Limits,
        !.containers[Target].stdin     = TRUE,
        !.containers[Target].tty       = TRUE ]

_patch_stateful_set(st) ==
    Then(StsCall([st EXCEPT !.status = "Maintenance: patching StatefulSet"], "read", NoBody),
         LAMBDA r :
           IF r.raised # "none" THEN r
           ELSE StsCall(r, "patch", PatchBody(r.sts)))

\* The property _statefulset_patched: one read, then the membership test.
\* The answer is left in ret.
_statefulset_patched(st) ==
    Then(StsCall(st, "read", NoBody),
         LAMBDA r :
           IF r.raised # "none" THEN r ELSE [r EXCEPT !.ret = HasSentinel(r.sts)])

----------------------------------------------------------------------------
(* The privilege probe and the handlers: charm.py *)

\* The answer to list_cluster_role.
ProbeAnswer(st) ==
    IF Len(st.calls) + 1 = st.failAt THEN "500"
    ELSE IF st.may THEN "ok" ELSE "403"

\* Variants of _k8s_auth: one takes every error of the probe for a 403, one
\* goes on after a 403, one remembers a refusal and does not probe again,
\* one probes whatever _authed says.
_k8s_auth_AnyErrorBlocks(st) ==
    IF st.authed THEN [st EXCEPT !.ret = TRUE]
    ELSE LET code   == ProbeAnswer(st)
             probed == [st EXCEPT !.calls = Append(@,
                           [verb |-> "list", kind |-> "ClusterRole", name |-> "",
                            body |-> NoBody, code |-> code])]
         IN  CASE code = "ok"  -> [probed EXCEPT !.authed = TRUE, !.ret = TRUE]
               [] OTHER        -> [probed EXCEPT !.status = "Blocked", !.ret = FALSE]
_k8s_auth_IgnoresForbidden(st) ==
    IF st.authed THEN [st EXCEPT !.ret = TRUE]
    ELSE LET code   == ProbeAnswer(st)
             probed == [st EXCEPT !.calls = Append(@,
                           [verb |-> "list", kind |-> "ClusterRole", name |-> "",
                            body |-> NoBody, code |-> code])]
         IN  CASE code = "ok"  -> [probed EXCEPT !.authed = TRUE, !.ret = TRUE]
               [] code = "403" -> [probed EXCEPT !.status = "Blocked", !.ret = TRUE]
               [] OTHER        -> [probed EXCEPT !.raised = code, !.ret = FALSE]

_k8s_auth_CachesRefusal(st) ==
    IF st.authed THEN [st EXCEPT !.ret = TRUE]
    ELSE IF st.status = "Blocked" THEN [st EXCEPT !.ret = FALSE]
    ELSE LET code   == ProbeAnswer(st)
             probed == [st EXCEPT !.calls = Append(@,
                           [verb |-> "list", kind |-> "ClusterRole", name |-> "",
                            body |-> NoBody, code |-> code])]
         IN  CASE code = "ok"  -> [probed EXCEPT !.authed = TRUE, !.ret = TRUE]
               [] code = "403" -> [probed EXCEPT !.status = "Blocked", !.ret = FALSE]
               [] OTHER        -> [probed EXCEPT !.raised = code, !.ret = FALSE]

_k8s_auth_AlwaysProbes(st) ==
    LET code   == ProbeAnswer(st)
        probed == [st EXCEPT !.calls = Append(@,
                      [verb |-> "list", kind |-> "ClusterRole", name |-> "",
                       body |-> NoBody, code |-> code])]
    IN  CASE code = "ok"  -> [probed EXCEPT !.authed = TRUE, !.ret = TRUE]
          [] code = "403" -> [probed EXCEPT !.status = "Blocked", !.ret = FALSE]
          [] OTHER        -> [probed EXCEPT !.raised = code, !.ret = FALSE]

_k8s_auth(st) ==
    IF st.authed THEN [st EXCEPT !.ret = TRUE]
    ELSE LET code   == ProbeAnswer(st)
             probed == [st EXCEPT !.calls = Append(@,
                           [verb |-> "list", kind |-> "ClusterRole", name |-> "",
                            body |-> NoBody, code |-> code])]
         IN  CASE code = "ok"  -> [probed EXCEPT !.authed = TRUE, !.ret = TRUE]
               [] code = "403" -> [probed EXCEPT !.status = "Blocked", !.ret = FALSE]
               [] OTHER        -> [probed EXCEPT !.raised = code, !.ret = FALSE]

\* SpgwcResources.apply and SpgwcResources.delete (the spgwc resources
\* module): the reconciler of the sibling charm, over the same descriptors.
SpgwcResources_apply(st, fs) == apply(st, fs)
SpgwcResources_delete(st, fs) == delete(st, fs)

_on_install(st, fs) ==
    Then(_k8s_auth(st),
         LAMBDA a :
           IF a.raised # "none" THEN a
           ELSE IF ~a.ret THEN [a EXCEPT !.defer = TRUE]
           ELSE SpgwcResources_apply(
                    [a EXCEPT !.status = "Maintenance: creating k8s resources"], fs))

_on_remove(st, fs) ==
    Then(_k8s_auth(st),
         LAMBDA a :
           IF a.raised # "none" THEN a
           ELSE IF ~a.ret THEN [a EXCEPT !.defer = TRUE]
           ELSE SpgwcResources_delete(a, fs))

\* A variant of _on_config_changed that swallows the error of the patch.
_on_config_changed_Swallows(st) ==
    Then(_k8s_auth(st),
         LAMBDA a :
           IF a.raised # "none" THEN a
           ELSE IF ~a.ret THEN [a EXCEPT !.defer = TRUE]
           ELSE Then(_statefulset_patched(a),
                     LAMBDA c :
                       IF c.raised # "none" THEN c
                       ELSE IF c.ret THEN [c EXCEPT !.status = "Active"]
                       ELSE Then(_patch_stateful_set(c),
                                 LAMBDA p : [p EXCEPT !.status = "Active",
                                                      !.raised = "none"])))

\* A variant of _on_config_changed that sets Active only when there was
\* nothing to patch.
_on_config_changed_WaitingLeft(st) ==
    Then(_k8s_auth(st),
         LAMBDA a :
           IF a.raised # "none" THEN a
           ELSE IF ~a.ret THEN [a EXCEPT !.defer = TRUE]
           ELSE Then(_statefulset_patched(a),
                     LAMBDA c :
                       IF c.raised # "none" THEN c
                       ELSE IF c.ret THEN [c EXCEPT !.status = "Active"]
                       ELSE Then(_patch_stateful_set(c),
                                 LAMBDA p :
                                   IF p.raised # "none" THEN p
                                   ELSE [p EXCEPT !.status =
                                           "Maintenance: waiting for changes to apply"])))

_on_config_changed(st) ==
    Then(_k8s_auth(st),
         LAMBDA a :
           IF a.raised # "none" THEN a
           ELSE IF ~a.ret THEN [a EXCEPT !.defer = TRUE]
           ELSE Then(_statefulset_patched(a),
                     LAMBDA c :
                       IF c.raised # "none" THEN c
                       ELSE IF c.ret THEN [c EXCEPT !.status = "Active"]
                       ELSE Then(_patch_stateful_set(c),
                                 LAMBDA p :
                                   IF p.raised # "none" THEN p
                                   ELSE Then([p EXCEPT !.status =
                                                "Maintenance: waiting for changes to apply"],
                                             LAMBDA w : [w EXCEPT !.status = "Active"]))))

----------------------------------------------------------------------------
(* The workload container: charm.py, _on_spgwc_pebble_ready *)

\* The two glob patterns of _on_spgwc_pebble_ready and where their files go.
scriptSrc == "src/files/script/*.*"
configSrc == "src/files/config/*.*"
scriptPath == "/opt/cp/scripts/"
configDst == "/etc/cp/config/"
Executable == "0o755"

\* SpgwcResources.loadfile (the spgwc resources module): the content of the
\* file, as SpgwuResources.loadfile reads it.
SpgwcResources_loadfile(file) == file.data

\* One call on the container.  push writes the file at its destination,
\* over a file that is there; add_layer(combine=True) leaves the layer
\* added; get_service answers whether the service runs (kept in the body of
\* the logged call); start leaves it running.  A call the environment makes
\* fail changes nothing and raises.
PebbleCall(st, verb, name, body) ==
    Then(IF Len(st.calls) + 1 = st.failAt THEN "error" ELSE "ok",
         LAMBDA code :
           [ st EXCEPT
               !.wl     = IF code # "ok" THEN @
                          ELSE CASE verb = "push" ->
                                      [@ EXCEPT !.pushed =
                                          { f \in @ : f.path # name } \cup
                                          { [path |-> name, data |-> body.data,
                                             permissions |-> body.permissions] }]
                                 [] verb = "add_layer"   -> [@ EXCEPT !.layer = TRUE]
                                 [] verb = "get_service" -> @
                                 [] verb = "start"       -> [@ EXCEPT !.running = TRUE],
               !.calls  = Append(@, [verb |-> verb, kind |-> "Pebble", name |-> name,
                                     body |-> IF verb = "get_service"
                                              THEN [running |-> st.wl.running]
                                              ELSE body,
                                     code |-> code]),
               !.raised = IF code = "ok" THEN "none" ELSE code,
               !.ret    = IF verb = "get_service" THEN st.wl.running ELSE @ ])

\* The body of the loop of _push_file_to_container.
PushOne(st, file, dstPath, filePermission) ==
    PebbleCall(st, "push", <<dstPath, file.name>>,
               [data |-> SpgwcResources_loadfile(file), permissions |-> filePermission])

\* A variant of the loop that goes on after a push that failed.
RECURSIVE PushEachSkipping(_, _, _, _)
PushEachSkipping(st, fs, dstPath, filePermission) ==
    IF fs = <<>> THEN st
    ELSE Then(PushOne([st EXCEPT !.raised = "none"], Head(fs), dstPath, filePermission),
              LAMBDA next : PushEachSkipping(next, Tail(fs), dstPath, filePermission))

\* for filePath in glob.glob(srcPath): an exception ends the loop.
RECURSIVE PushEach(_, _, _, _)
PushEach(st, fs, dstPath, filePermission) ==
    IF fs = <<>> \/ st.raised # "none" THEN st
    ELSE Then(PushOne(st, Head(fs), dstPath, filePermission),
              LAMBDA next : PushEach(next, Tail(fs), dstPath, filePermission))

_push_file_to_container_SkipsFailed(st, srcPath, dstPath, filePermission) ==
    Then(PushEachSkipping(st, st.wl.tree[srcPath], dstPath, filePermission),
         LAMBDA done : [done EXCEPT !.raised = "none"])

_push_file_to_container(st, srcPath, dstPath, filePermission) ==
    PushEach(st, st.wl.tree[srcPath], dstPath, filePermission)

\* A variant of StartLayer that starts the service without asking whether
\* it runs.
StartLayer_AlwaysStarts(st) ==
    Then(PebbleCall(st, "add_layer", "spgwc", NoBody),
         LAMBDA l :
           IF l.raised # "none" THEN l
           ELSE Then(PebbleCall(l, "get_service", "spgwc", NoBody),
                     LAMBDA g :
                       IF g.raised # "none" THEN g
                       ELSE PebbleCall(g, "start", "spgwc", NoBody)))

\* The calls of _on_spgwc_pebble_ready after the files are pushed.
StartLayer(st) ==
    Then(PebbleCall(st, "add_layer", "spgwc", NoBody),
         LAMBDA l :
           IF l.raised # "none" THEN l
           ELSE Then(PebbleCall(l, "get_service", "spgwc", NoBody),
                     LAMBDA g :
                       IF g.raised # "none" \/ g.ret THEN g
                       ELSE PebbleCall(g, "start", "spgwc", NoBody)))

_on_spgwc_pebble_ready(st) ==
    Then(_push_file_to_container(st, scriptSrc, scriptPath, Executable),
         LAMBDA s1 :
           IF s1.raised # "none" THEN s1
           ELSE Then(_push_file_to_container(s1, configSrc, configDst, Executable),
                     LAMBDA s2 :
                       IF s2.raised # "none" THEN s2
                       ELSE Then(StartLayer(s2),
                                 LAMBDA s3 :
                                   IF s3.raised # "none" THEN s3
                                   ELSE [s3 EXCEPT !.status = "Active"])))

----------------------------------------------------------------------------
(* Initial states *)

\* What each directory of the charm may hold.
FileTrees ==
    { [ p \in Paths |-> [ f \in FileNames |->
          CASE p = script_path   /\ f = "setup-af-iface.sh" -> s
            [] p = configPath    /\ f = "dp.json"           -> c
            [] p = runscriptPath /\ f = "run.sh"            -> r
            [] OTHER                                        -> Absent ] ]
      : s \in Contents \cup {Absent}, c \in {Absent, "v1"}, r \in {Absent, "v1"} }

\* Objects the namespace may hold that the charm did not write: the Service
\* as Juju creates it, a ConfigMap left by an earlier revision, and objects
\* with other names.
JujuService ==
    [ name |-> ServiceName,
      body |-> [ type |-> "ClusterIP", protocol |-> "TCP", port |-> 65535, node_port |-> 0 ],
      extra |-> "juju" ]
OtherService == [ JujuService EXCEPT !.name = "spgwu-endpoints" ]
StaleConfigMap ==
    [ name |-> ConfigMapName,
      body |-> [ data |-> [ NoData EXCEPT !["setup-af-iface.sh"] = "v2", !["dp.json"] = "v2" ] ],
      extra |-> "manual" ]
OtherConfigMap == [ StaleConfigMap EXCEPT !.name = "mme-ip" ]

Namespaces ==
    { [ services |-> sv, configmaps |-> cm ]
      : sv \in SUBSET {JujuService, OtherService},
        cm \in SUBSET {StaleConfigMap, OtherConfigMap} }

\* The StatefulSet as Juju deploys it: the charm container, then the workload.
JujuEnv == [ name |-> "JUJU_CONTAINER_NAME", source |-> "literal:spgwc" ]
Container(env) ==
    [ env |-> env, resources |-> NoLimits, stdin |-> FALSE, tty |-> FALSE,
      image |-> "omecproject/spgw" ]
StatefulSet(env) ==
    [ containers      |-> << Container(<<JujuEnv>>), Container(env) >>,
      init_containers |-> << "charm-init" >>,
      service_name    |-> "spgwc-endpoints" ]

StatefulSets ==
    { StatefulSet(<<JujuEnv>>),
      StatefulSet(<<JujuEnv, [ name |-> "MME_ADDR", source |-> "literal:10.0.0.1" ]>>),
      StatefulSet(<<JujuEnv, expected>>) }

\* A container that has just started: nothing pushed, no layer, no service.
Fresh(tree) == [ tree |-> tree, pushed |-> {}, layer |-> FALSE, running |-> FALSE ]

\* The values of workload, conc and loop while nothing uses them.
NoWorkload == Fresh([ p \in {scriptSrc, configSrc} |-> <<>> ])

Reconcilers == {"r1", "r2"}

NoConc ==
    [ pc      |-> [r \in Reconcilers |-> "idle"],
      local   |-> [r \in Reconcilers |-> StatefulSet(<<JujuEnv>>)],
      seen    |-> [r \in Reconcilers |-> 0],
      absent  |-> [r \in Reconcilers |-> FALSE],
      issued  |-> [r \in Reconcilers |-> "none"],
      version |-> 0,
      edits   |-> 0,
      stale   |-> FALSE ]

NoLoop == [ containers |-> <<>>, length |-> 0, itr |-> 0, pc |-> "none" ]

NoHistory ==
    /\ handler = "none"
    /\ delivery = "none"
    /\ outcome = "none"
    /\ calls = <<>>
    /\ before = cluster
    /\ applied = FALSE
    /\ patchCalls = 0
    /\ patchOks = 0

\* The resources object on its own, in any namespace and with any file tree.
InitRes ==
    /\ files \in FileTrees
    /\ cluster \in Namespaces
    /\ sts = StatefulSet(<<JujuEnv>>)
    /\ trusted = TRUE
    /\ authed = FALSE
    /\ status = "Unknown"
    /\ deferred = {}
    /\ NoHistory
    /\ workload = NoWorkload
    /\ conc = NoConc
    /\ loop = NoLoop

\* The charm, freshly deployed, trusted or not.
Deployed ==
    /\ files \in { t \in FileTrees : \A p \in Paths : \E f \in FileNames : t[p][f] = "v1" }
    /\ cluster = [ services |-> {JujuService, OtherService}, configmaps |-> {OtherConfigMap} ]
    /\ sts \in StatefulSets
    /\ trusted \in BOOLEAN
    /\ authed = FALSE
    /\ status = "Unknown"
    /\ deferred = {}
    /\ NoHistory

Init ==
    /\ Deployed
    /\ workload = NoWorkload
    /\ conc = NoConc
    /\ loop = NoLoop

----------------------------------------------------------------------------
(* Actions *)

Outcome(st) ==
    IF st.raised # "none" THEN "raised"
    ELSE IF st.defer THEN "deferred" ELSE "ok"

Count(cs, verb, kind, codes) ==
    Cardinality({ i \in 1..Len(cs) :
                    cs[i].verb = verb /\ cs[i].kind = kind /\ cs[i].code \in codes })

Codes == {"ok", "403", "404", "409", "500"}

\* The state an operation leaves behind.
Finish(op, st) ==
    /\ cluster' = st.cl
    /\ sts' = st.sts
    /\ status' = st.status
    /\ authed' = st.authed
    /\ handler' = op
    /\ outcome' = Outcome(st)
    /\ calls' = st.calls
    /\ before' = cluster
    /\ applied' = (outcome = "ok" /\ handler = "apply")
    /\ patchCalls' = patchCalls + Count(st.calls, "patch", "StatefulSet", Codes)
    /\ patchOks' = patchOks + Count(st.calls, "patch", "StatefulSet", {"ok"})
    /\ UNCHANGED <<files, trusted>>
    /\ UNCHANGED aside

\* The calls one operation issues are numbered from 1; the environment may
\* make any one of them fail (0: none).  An operation issues at most: apply,
\* a list and a mutation per descriptor; delete, one call per descriptor;
\* config-changed, three calls on the StatefulSet; a handler, the probe first.
Descriptors == Len(_services) + Len(_configmaps(files))
FailPoints(op) ==
    0 .. CASE op = "apply"          -> 2 * Descriptors
           [] op = "delete"         -> Descriptors
           [] op = "install"        -> 1 + 2 * Descriptors
           [] op = "remove"         -> 1 + Descriptors
           [] op = "config-changed" -> 1 + 3

\* SpgwuResources.apply() called on its own.
Apply ==
    \E failAt \in FailPoints("apply") :
        \E st \in { apply(Start(failAt), files) } :
            /\ Finish("apply", st)
            /\ delivery' = "direct"
            /\ UNCHANGED deferred

\* SpgwuResources.delete() called on its own.
Delete ==
    \E failAt \in FailPoints("delete") :
        \E st \in { delete(Start(failAt), files) } :
            /\ Finish("delete", st)
            /\ delivery' = "direct"
            /\ UNCHANGED deferred

\* Somebody else creates or deletes objects of the namespace.
ExternalEdit ==
    /\ cluster' \in Namespaces \ {cluster}
    /\ handler' = "external"
    /\ delivery' = "direct"
    /\ outcome' = "ok"
    /\ calls' = <<>>
    /\ before' = cluster
    /\ applied' = FALSE
    /\ UNCHANGED <<files, sts, trusted, authed, status, deferred, patchCalls, patchOks>>
    /\ UNCHANGED aside

Kinds == {"install", "config-changed", "remove"}

Run(kind, st) ==
    CASE kind = "install"        -> _on_install(st, files)
      [] kind = "config-changed" -> _on_config_changed(st)
      [] kind = "remove"         -> _on_remove(st, files)

\* The framework runs the handler of an event.  An event whose handler called
\* defer() is kept for re-delivery; one whose handler raised is left as it was.
Handle(kind, failAt, redelivery) ==
    /\ kind = "config-changed" =>
          /\ failAt # 0 => patchCalls - patchOks < MaxPatchCalls
          /\ patchOks < MaxPatchCalls
    /\ \E st \in { Run(kind, Start(failAt)) } :
        /\ Finish(kind, st)
        /\ delivery' = IF redelivery THEN "redeliver" ELSE "emit"
        /\ deferred' = IF st.raised # "none" THEN deferred
                       ELSE IF st.defer THEN deferred \cup {kind}
                       ELSE IF redelivery THEN deferred \ {kind}
                       ELSE deferred

\* Juju emits an event.
Emit(kind) == \E failAt \in FailPoints(kind) : Handle(kind, failAt, FALSE)

\* The framework re-delivers a deferred event.
Redeliver(kind) ==
    /\ kind \in deferred
    /\ \E failAt \in FailPoints(kind) : Handle(kind, failAt, TRUE)

\* The next hook runs in a new charm process: _authed starts False again.
NewProcess ==
    /\ authed
    /\ authed' = FALSE
    /\ UNCHANGED <<files, cluster, sts, trusted, status, deferred, handler, delivery,
                   outcome, calls, before, applied, patchCalls, patchOks>>
    /\ UNCHANGED aside

\* The operator runs `juju trust`.
JujuTrust ==
    /\ ~trusted
    /\ trusted' = TRUE
    /\ UNCHANGED <<files, cluster, sts, authed, status, deferred, handler, delivery,
                   outcome, calls, before, applied, patchCalls, patchOks>>
    /\ UNCHANGED aside

\* The operator takes the permission away again.
RevokeTrust ==
    /\ trusted
    /\ trusted' = FALSE
    /\ UNCHANGED <<files, cluster, sts, authed, status, deferred, handler, delivery,
                   outcome, calls, before, applied, patchCalls, patchOks>>
    /\ UNCHANGED aside

\* An event, and a re-delivery, during which the cluster answers no call
\* with a server error.
EmitOk(kind) == Handle(kind, 0, FALSE)

RedeliverOk(kind) ==
    /\ kind \in deferred
    /\ Handle(kind, 0, TRUE)

ResNext == Apply \/ Delete \/ ExternalEdit

Next ==
    \/ \E kind \in Kinds : Emit(kind)
    \/ \E kind \in Kinds : Redeliver(kind)
    \/ NewProcess
    \/ JujuTrust
    \/ RevokeTrust

\* The resources object driven directly.
ResSpec == InitRes /\ [][ResNext]_vars

\* The charm driven by its events.
Spec == Init /\ [][Next]_vars

\* The charm deployed without the permission; the operator eventually runs
\* `juju trust` and the permission then stays; the cluster answers without
\* server errors; the dispatcher keeps re-delivering a deferred event.
LiveInit ==
    /\ Init
    /\ ~trusted

LiveNext ==
    \/ \E kind \in Kinds : EmitOk(kind)
    \/ \E kind \in Kinds : RedeliverOk(kind)
    \/ NewProcess
    \/ JujuTrust

LiveSpec ==
    /\ LiveInit
    /\ [][LiveNext]_vars
    /\ WF_vars(JujuTrust)
    /\ \A kind \in Kinds : WF_vars(RedeliverOk(kind))

----------------------------------------------------------------------------
(* pebble-ready (PebbleSpec) *)

\* The files the two patterns may match, in the order glob returns them.
ScriptFiles ==
    { <<>>,
      << [name |-> "spgwc-run.sh", data |-> "run v1"] >>,
      << [name |-> "spgwc-run.sh", data |-> "run v1"],
         [name |-> "spgwc-init.sh", data |-> "init v1"] >>,
      << [name |-> "spgwc-init.sh", data |-> "init v1"],
         [name |-> "spgwc-run.sh", data |-> "run v2"] >> }
ConfigFiles ==
    { <<>>,
      << [name |-> "cp.json", data |-> "cp v1"] >>,
      << [name |-> "cp.json", data |-> "cp v1"],
         [name |-> "spgwc-run.sh", data |-> "stray"] >> }

PebbleTrees ==
    { [ p \in {scriptSrc, configSrc} |-> IF p = scriptSrc THEN sf ELSE cf ]
      : sf \in ScriptFiles, cf \in ConfigFiles }

PebbleInit ==
    /\ Deployed
    /\ trusted
    /\ sts = StatefulSet(<<JujuEnv>>)
    /\ workload \in { Fresh(t) : t \in PebbleTrees }
    /\ conc = NoConc
    /\ loop = NoLoop

\* The files of both patterns, in the order the handler pushes them.
Matched(wl) == wl.tree[scriptSrc] \o wl.tree[configSrc]

\* The framework runs _on_spgwc_pebble_ready; any one of its calls on the
\* container may fail (0: none).
PebbleReady ==
    \E failAt \in 0 .. Len(Matched(workload)) + 3 :
        \E st \in { _on_spgwc_pebble_ready(Start(failAt)) } :
            /\ workload' = st.wl
            /\ status' = st.status
            /\ handler' = "pebble-ready"
            /\ delivery' = "emit"
            /\ outcome' = Outcome(st)
            /\ calls' = st.calls
            /\ before' = cluster
            /\ applied' = FALSE
            /\ UNCHANGED <<files, cluster, sts, trusted, authed, deferred,
                           patchCalls, patchOks, conc, loop>>

\* The service exits.
ServiceStops ==
    /\ workload.running
    /\ workload' = [workload EXCEPT !.running = FALSE]
    /\ UNCHANGED <<files, cluster, sts, trusted, authed, status, deferred, handler,
                   delivery, outcome, calls, before, applied, patchCalls, patchOks,
                   conc, loop>>

\* The container is replaced: what was pushed and the layer are gone.
ContainerRestarts ==
    /\ workload # Fresh(workload.tree)
    /\ workload' = Fresh(workload.tree)
    /\ UNCHANGED <<files, cluster, sts, trusted, authed, status, deferred, handler,
                   delivery, outcome, calls, before, applied, patchCalls, patchOks,
                   conc, loop>>

PebbleNext == PebbleReady \/ ServiceStops \/ ContainerRestarts

PebbleSpec == PebbleInit /\ [][PebbleNext]_vars

----------------------------------------------------------------------------
(* Reconcilers side by side (ConcSpec) *)

\* config-changed handled by two reconcilers at once, each API call a step
\* of its own, and one other writer of the StatefulSet.  The object a
\* reconciler reads carries the resource version of the live object, and the
\* body it patches with is that object: conc.version is the live version,
\* conc.seen[r] the one r has read.

\* The other writer edits the StatefulSet at most this many times.
MaxEdits == 1

ExternalEnv == [ name |-> "LOG_LEVEL", source |-> "literal:debug" ]

ConcInit ==
    /\ Init
    /\ trusted

\* The answers the API server may give to a patch whose body carries the
\* resource version `seen` while the live object has `version`: the same
\* version is accepted; an older one is accepted by a server that ignores
\* it (last write wins) and refused with 409 by one that enforces it.
PatchAnswers(seen, version) == IF seen = version THEN {"ok"} ELSE {"ok", "409"}

\* A variant of ReadForPatch that looks for the sentinel again in what it read.
ReadForPatch_Rechecks(r) ==
    /\ conc.pc[r] = "checked"
    /\ conc' = [conc EXCEPT !.pc[r]    = IF HasSentinel(sts) THEN "done" ELSE "read",
                            !.local[r] = sts,
                            !.seen[r]  = conc.version]
    /\ status' = IF HasSentinel(sts) THEN "Active" ELSE "Maintenance: patching StatefulSet"
    /\ UNCHANGED <<files, cluster, sts, trusted, authed, deferred, handler, delivery,
                   outcome, calls, before, applied, patchCalls, patchOks, workload, loop>>

\* _on_config_changed up to the answer of _statefulset_patched: one read and
\* the membership test.  A reconciler that finds the sentinel is done.
CheckPatched(r) ==
    /\ conc.pc[r] = "idle"
    /\ conc' = [conc EXCEPT !.pc[r]     = IF HasSentinel(sts) THEN "done" ELSE "checked",
                            !.absent[r] = ~HasSentinel(sts),
                            !.issued[r] = "none"]
    /\ status' = IF HasSentinel(sts) THEN "Active" ELSE status
    /\ UNCHANGED <<files, cluster, sts, trusted, authed, deferred, handler, delivery,
                   outcome, calls, before, applied, patchCalls, patchOks, workload, loop>>

\* _patch_stateful_set up to its read of the StatefulSet.
ReadForPatch(r) ==
    /\ conc.pc[r] = "checked"
    /\ conc' = [conc EXCEPT !.pc[r]    = "read",
                            !.local[r] = sts,
                            !.seen[r]  = conc.version]
    /\ status' = "Maintenance: patching StatefulSet"
    /\ UNCHANGED <<files, cluster, sts, trusted, authed, deferred, handler, delivery,
                   outcome, calls, before, applied, patchCalls, patchOks, workload, loop>>

\* The patch call of _patch_stateful_set, with the object read as its body,
\* and the rest of the handler.
PatchRead(r) ==
    /\ conc.pc[r] = "read"
    /\ \E code \in PatchAnswers(conc.seen[r], conc.version) :
        /\ sts' = IF code = "ok" THEN PatchBody(conc.local[r]) ELSE sts
        /\ conc' = [conc EXCEPT
                      !.pc[r]     = "done",
                      !.issued[r] = code,
                      !.version   = IF code = "ok" THEN @ + 1 ELSE @,
                      !.stale     = conc.seen[r] # conc.version]
        /\ status' = IF code = "ok" THEN "Active" ELSE status
        /\ patchCalls' = patchCalls + 1
        /\ patchOks' = IF code = "ok" THEN patchOks + 1 ELSE patchOks
    /\ UNCHANGED <<files, cluster, trusted, authed, deferred, handler, delivery,
                   outcome, calls, before, applied, workload, loop>>

\* The next config-changed of a reconciler that is done.
NextEvent(r) ==
    /\ conc.pc[r] = "done"
    /\ conc' = [conc EXCEPT !.pc[r] = "idle"]
    /\ UNCHANGED <<files, cluster, sts, trusted, authed, status, deferred, handler,
                   delivery, outcome, calls, before, applied, patchCalls, patchOks,
                   workload, loop>>

\* Another writer adds an env var to the workload container.
OtherWriter ==
    /\ conc.edits < MaxEdits
    /\ sts' = [sts EXCEPT !.containers[Target].env = Append(@, ExternalEnv)]
    /\ conc' = [conc EXCEPT !.edits = @ + 1, !.version = @ + 1]
    /\ UNCHANGED <<files, cluster, trusted, authed, status, deferred, handler,
                   delivery, outcome, calls, before, applied, patchCalls, patchOks,
                   workload, loop>>

ConcNext ==
    \/ \E r \in Reconcilers : CheckPatched(r)
    \/ \E r \in Reconcilers : ReadForPatch(r)
    \/ \E r \in Reconcilers : PatchRead(r)
    \/ \E r \in Reconcilers : NextEvent(r)
    \/ OtherWriter

ConcSpec == ConcInit /\ [][ConcNext]_vars

----------------------------------------------------------------------------
(* add_container_resource_limit (LimitSpec) *)

\* The requirements add_container_resource_limit sets.
SmallLimits == [ limits   |-> [ cpu |-> "0.2", memory |-> "200Mi" ],
                 requests |-> [ cpu |-> "0.2", memory |-> "200Mi" ] ]

\* The lists of containers the function is given hold up to this many.
MaxContainers == 4

ContainerLists ==
    UNION { [1..n -> {NoLimits, Limits, SmallLimits}] : n \in 0..MaxContainers }

LimitInit ==
    /\ Deployed
    /\ trusted
    /\ sts = StatefulSet(<<JujuEnv>>)
    /\ workload = NoWorkload
    /\ conc = NoConc
    /\ loop \in { [ containers |-> cs, length |-> 0, itr |-> 0, pc |-> "start" ]
                  : cs \in ContainerLists }

LoopFrame ==
    UNCHANGED <<files, cluster, sts, trusted, authed, status, deferred, handler,
                delivery, outcome, calls, before, applied, patchCalls, patchOks,
                workload, conc>>

\* The attribute is a property: reading it calls the getter with self alone,
\* and the call fails for want of `containers`.
Access ==
    /\ loop.pc = "start"
    /\ loop' = [loop EXCEPT !.pc = "raised"]
    /\ LoopFrame

\* The function under the property called with a list: length and itr are set.
Enter ==
    /\ loop.pc = "start"
    /\ loop' = [loop EXCEPT !.length = Len(loop.containers), !.itr = 1, !.pc = "while"]
    /\ LoopFrame

\* One pass through the body of the while loop: containers[itr] gets the
\* requirements; itr is left as it is.
Iterate ==
    /\ loop.pc = "while"
    /\ loop.itr < loop.length
    /\ loop' = [loop EXCEPT !.containers[loop.itr + 1] = SmallLimits]
    /\ LoopFrame

\* The condition of the while loop is false: the function returns.
Return ==
    /\ loop.pc = "while"
    /\ ~(loop.itr < loop.length)
    /\ loop' = [loop EXCEPT !.pc = "done"]
    /\ LoopFrame

LimitNext == Access \/ Enter \/ Iterate \/ Return

\* A scheduler that keeps running the function once it is entered.
LimitSpec ==
    /\ LimitInit
    /\ [][LimitNext]_vars
    /\ WF_vars(Iterate)
    /\ WF_vars(Return)

----------------------------------------------------------------------------
(* Properties of the resources object (checked under ResSpec) *)

\* No call of the last operation was made to fail by the environment.
NoServerError == \A i \in 1..Len(calls) : calls[i].code # "500"

Named(kind, name) == Items(cluster, kind, name)

\* The descriptors in the order apply and delete go through them.
AllDescriptors == _services \o _configmaps(files)

\* C1: apply is idempotent.  When apply() runs right after an apply() that
\* returned normally, with nothing else touching the namespace in between
\* and no server error, it raises nothing, leaves the namespace exactly as
\* it found it, and the namespace holds exactly one Service spgwu-dp-comm
\* and exactly one ConfigMap spgwu.
C1_ApplyIdempotent ==
    (handler = "apply" /\ applied /\ NoServerError) =>
        /\ outcome = "ok"
        /\ cluster = before
        /\ Cardinality(Named("Service", ServiceName)) = 1
        /\ Cardinality(Named("ConfigMap", ConfigMapName)) = 1

\* A second apply in a row has returned, and it patched both objects.
C1_Witness ==
    /\ handler = "apply" /\ applied /\ outcome = "ok"
    /\ Count(calls, "patch", "Service", {"ok"}) = 1
    /\ Count(calls, "patch", "ConfigMap", {"ok"}) = 1

IsMutation(c) == c.verb \in {"create", "patch", "delete"}

\* C2: create versus patch.  For the k-th descriptor D, apply first lists
\* by D's name and then issues exactly one mutating call for D: a patch if
\* an object named as D existed when apply started, a create if none did.
\* No other call is issued, and a list that was answered is always followed
\* by its mutation.  In a namespace without the Service, the one create for
\* it carries type NodePort, protocol UDP, port 8085, node port 30020.
C2_CreateOrPatch ==
    handler = "apply" =>
        /\ Len(calls) <= 2 * Len(AllDescriptors)
        /\ outcome = "ok" => Len(calls) = 2 * Len(AllDescriptors)
        /\ \A k \in 1..Len(AllDescriptors) :
             LET d == AllDescriptors[k]
                 existed == Items(before, d.kind, d.name) # {}
             IN  /\ Len(calls) >= 2 * k - 1 =>
                      /\ calls[2 * k - 1].verb = "list"
                      /\ calls[2 * k - 1].kind = d.kind
                      /\ calls[2 * k - 1].name = d.name
                      /\ calls[2 * k - 1].code = "ok" => Len(calls) >= 2 * k
                 /\ Len(calls) >= 2 * k =>
                      /\ calls[2 * k].verb = (IF existed THEN "patch" ELSE "create")
                      /\ calls[2 * k].kind = d.kind
                      /\ calls[2 * k].name = d.name
                      /\ calls[2 * k].body = d.body
        /\ (Items(before, "Service", ServiceName) = {} /\ Len(calls) >= 2) =>
             /\ Count(calls, "create", "Service", Codes) = 1
             /\ Count(calls, "patch", "Service", Codes) = 0
             /\ calls[2].body.type = "NodePort"
             /\ calls[2].body.protocol = "UDP"
             /\ calls[2].body.port = 8085
             /\ calls[2].body.node_port = 30020

\* apply has run in a namespace without the Service and with the ConfigMap:
\* it created the one and patched the other.
C2_Witness ==
    /\ handler = "apply" /\ outcome = "ok"
    /\ Items(before, "Service", ServiceName) = {}
    /\ Items(before, "ConfigMap", ConfigMapName) # {}
    /\ calls[2].verb = "create" /\ calls[2].code = "ok"
    /\ calls[4].verb = "patch" /\ calls[4].code = "ok"

\* C3: delete is idempotent.  When the cluster answers no call with a server
\* error, delete() returns normally whether or not the objects exist, it
\* has issued a delete for every descriptor, and neither object remains.
C3_DeleteMissingSucceeds ==
    (handler = "delete" /\ NoServerError) =>
        /\ outcome = "ok"
        /\ Len(calls) = Len(AllDescriptors)
        /\ Named("Service", ServiceName) = {}
        /\ Named("ConfigMap", ConfigMapName) = {}

\* C9: delete undoes apply.  When apply() has returned normally in a
\* namespace that held neither object, and delete() runs next and returns
\* normally, the namespace is again exactly what it was before the apply:
\* neither object is there and every other object is untouched.
C9_DeleteUndoesApply ==
    [][ ( /\ handler = "apply" /\ outcome = "ok"
          /\ Items(before, "Service", ServiceName) = {}
          /\ Items(before, "ConfigMap", ConfigMapName) = {}
          /\ handler' = "delete" /\ outcome' = "ok" )
        => ( /\ cluster' = before
             /\ Items(cluster', "Service", ServiceName) = {}
             /\ Items(cluster', "ConfigMap", ConfigMapName) = {} ) ]_vars

\* delete has returned normally right after an apply that had created both
\* objects, in a namespace that holds other objects too.
C9_Witness ==
    /\ handler = "delete" /\ outcome = "ok" /\ applied
    /\ \E o \in before.services : o.name = ServiceName /\ o.extra = "default"
    /\ \E o \in before.configmaps : o.name = ConfigMapName /\ o.extra = "default"
    /\ cluster.services = {OtherService}
    /\ cluster.configmaps = {OtherConfigMap}

\* C10: one ConfigMap per bundle.  The desired state holds one Service
\* descriptor, and after an apply() that returned normally every file of
\* every bundle (scripts, config, run-scripts) is in some ConfigMap of the
\* namespace.
C10_EveryBundleApplied ==
    (handler = "apply" /\ outcome = "ok") =>
        /\ Len(_services) = 1
        /\ \A p \in Paths : \A f \in FileNames :
             files[p][f] # Absent =>
                \E o \in cluster.configmaps : o.body.data[f] = files[p][f]

----------------------------------------------------------------------------
(* Properties of the charm (checked under Spec) *)

StsPatches(cs) == Count(cs, "patch", "StatefulSet", Codes)

Occurrences(x, s) == Cardinality({ i \in 1..Len(s) : s[i] = x })

\* The answer the privilege probe got in the last handling ("none": no probe).
ProbeCode(cs) ==
    IF cs # <<>> /\ cs[1].kind = "ClusterRole" THEN cs[1].code ELSE "none"

\* The sentinel env var is in containers[1].env of the live StatefulSet.
SentinelPresent ==
    \E i \in 1..Len(sts.containers[ContainerIndex + 1].env) :
        sts.containers[ContainerIndex + 1].env[i] = expected

\* The last handling ended in a patch of the StatefulSet that failed.
PatchFailed(cs) ==
    /\ cs # <<>>
    /\ cs[Len(cs)].verb = "patch"
    /\ cs[Len(cs)].kind = "StatefulSet"
    /\ cs[Len(cs)].code # "ok"

\* C4 as stated: over any sequence of config-changed events the patch of
\* the StatefulSet is called at most once.
C4_PatchCalledAtMostOnce == patchCalls <= 1

\* C4, amended: the patch of the StatefulSet succeeds at most once.  From a
\* state in which the sentinel is in containers[1].env no step changes the
\* StatefulSet or issues a patch call, so the env entries and the
\* init-containers of the patch are never appended a second time.
C4_PatchSucceedsAtMostOnce ==
    /\ [](/\ patchOks <= 1
          /\ Occurrences(expected, sts.containers[Target].env) <= 1
          /\ \A i \in 1..Len(add_spgwc_init_containers) :
               Occurrences(add_spgwc_init_containers[i], sts.init_containers) <= 1)
    /\ [][SentinelPresent => (sts' = sts /\ patchCalls' = patchCalls)]_vars

\* After a patch that succeeded, a later config-changed has passed the auth
\* check, read the StatefulSet and issued no write.
C4_Witness ==
    /\ patchOks = 1
    /\ handler = "config-changed" /\ outcome = "ok"
    /\ StsPatches(calls) = 0
    /\ Count(calls, "read", "StatefulSet", {"ok"}) = 1

\* C5: a 403 defers and never mutates.  When the probe of the last handling
\* was answered 403, the handler (install, config-changed or remove) called
\* defer(), the event waits for re-delivery, the probe was the only API call
\* of the handling, and the namespace is as it was.
C5_ForbiddenDefers ==
    ProbeCode(calls) = "403" =>
        /\ handler \in Kinds
        /\ outcome = "deferred"
        /\ handler \in deferred
        /\ Len(calls) = 1
        /\ \A i \in 1..Len(calls) : ~IsMutation(calls[i])
        /\ cluster = before

\* Each of the three handlers has been deferred, the last one on a 403.
C5_Witness ==
    /\ ProbeCode(calls) = "403"
    /\ outcome = "deferred"
    /\ deferred = Kinds

\* C6: classification of the probe's errors.  A handling whose probe is
\* answered 403 sets the status to Blocked and ends deferred, not raised;
\* one whose probe is answered with another error raises, defers nothing
\* and leaves the status as it was; either way _authed is False afterwards.
C6_ProbeErrors ==
    [][ /\ ProbeCode(calls') = "403" =>
             (status' = "Blocked" /\ outcome' = "deferred" /\ ~authed')
        /\ (ProbeCode(calls') \notin {"none", "ok", "403"}) =>
             ( /\ outcome' = "raised"
               /\ status' = status
               /\ deferred' = deferred
               /\ Len(calls') = 1
               /\ ~authed' ) ]_vars

\* A probe answered with a server error while the unit was Active: the
\* handler raised and the unit is still Active.
C6_Witness ==
    /\ ProbeCode(calls) = "500"
    /\ outcome = "raised"
    /\ status = "Active"
    /\ handler \notin deferred

ConfigChanged == Emit("config-changed") \/ Redeliver("config-changed")

\* C7: a failed patch leaves the unit to be patched.  When the patch call of
\* a config-changed fails, the handler raises, the status it leaves is not
\* Active, and the sentinel is not in the live StatefulSet; and the next
\* config-changed that gets past the auth check and its two reads issues
\* the patch call again.
C7_FailedPatchIsRetried ==
    /\ [](PatchFailed(calls) =>
            /\ handler = "config-changed"
            /\ outcome = "raised"
            /\ status = "Maintenance: patching StatefulSet"
            /\ ~SentinelPresent)
    /\ [][ (PatchFailed(calls) /\ ConfigChanged
              /\ Count(calls', "read", "StatefulSet", {"ok"}) = 2)
           => StsPatches(calls') = 1 ]_vars

\* Two patch calls have failed, the second in a later config-changed.
C7_Witness ==
    /\ PatchFailed(calls)
    /\ patchCalls = 2
    /\ patchOks = 0

----------------------------------------------------------------------------
(* Convergence (checked under LiveSpec) *)

BothExist ==
    /\ Named("Service", ServiceName) # {}
    /\ Named("ConfigMap", ConfigMapName) # {}

\* C8: convergence through re-delivery.  No handling probes the cluster more
\* than once, and a handling that defers has issued the probe alone (a
\* handler does not retry by itself).  With the permission eventually
\* granted for good and deferred events re-delivered, whenever an install
\* event waits for re-delivery the Service and the ConfigMap eventually
\* exist, and whenever a config-changed event waits for re-delivery the
\* StatefulSet eventually carries the sentinel.
C8_Convergence ==
    /\ [](/\ Count(calls, "list", "ClusterRole", Codes) <= 1
          /\ outcome = "deferred" => Len(calls) = 1)
    /\ ("install" \in deferred) ~> BothExist
    /\ ("config-changed" \in deferred) ~> SentinelPresent

\* A re-delivered install has got past the auth check and created the
\* ConfigMap, and the StatefulSet carries the sentinel after a re-delivered
\* config-changed or a fresh one.
C8_Witness ==
    /\ handler = "install" /\ delivery = "redeliver" /\ outcome = "ok"
    /\ "install" \notin deferred
    /\ BothExist
    /\ Count(calls, "create", "ConfigMap", {"ok"}) = 1

----------------------------------------------------------------------------
(* Properties of pebble-ready (checked under PebbleSpec) *)

\* Where the i-th matched file goes.
Destination(wl, i) ==
    << IF i <= Len(wl.tree[scriptSrc]) THEN scriptPath ELSE configDst, Matched(wl)[i].name >>

FailedPushes(cs) == { k \in 1..Len(cs) : cs[k].verb = "push" /\ cs[k].code # "ok" }

\* C11: the file push aborts on the first failure.  In every handling of
\* pebble-ready in which the push of the k-th matched file fails, that push
\* is the last call of the handling; the k-1 files before it were pushed in
\* order and are in the container with their content; the container holds
\* nothing else that it did not hold before; the handler raises; the layer
\* is not added, the service is not started, and the status is left as it
\* was.
C11_PushAbortsOnFailure ==
    [][ (PebbleReady /\ FailedPushes(calls') # {}) =>
          \A k \in FailedPushes(calls') :
            /\ k = Len(calls')
            /\ outcome' = "raised"
            /\ calls'[k].name = Destination(workload, k)
            /\ \A i \in 1..(k - 1) :
                 /\ calls'[i].verb = "push" /\ calls'[i].code = "ok"
                 /\ calls'[i].name = Destination(workload, i)
                 /\ [ path |-> Destination(workload, i),
                      data |-> Matched(workload)[i].data,
                      permissions |-> Executable ] \in workload'.pushed
            /\ \A f \in workload'.pushed :
                 \/ f \in workload.pushed
                 \/ \E i \in 1..(k - 1) : f.path = Destination(workload, i)
            /\ workload'.layer = workload.layer
            /\ workload'.running = workload.running
            /\ status' = status ]_vars

\* The push of the third file has failed in a fresh container: the first
\* two files are there, the layer is not, and the unit is not Active.
C11_Witness ==
    /\ handler = "pebble-ready" /\ outcome = "raised"
    /\ Len(calls) = 3
    /\ calls[3].verb = "push" /\ calls[3].code = "error"
    /\ Cardinality(workload.pushed) = 2
    /\ ~workload.layer /\ ~workload.running
    /\ status # "Active"

----------------------------------------------------------------------------
(* More properties of the resources object (checked under ResSpec) *)

\* C12: apply is not transactional and does not retry.  When apply() raises,
\* exactly one of its calls failed and it is the last one; no call was
\* issued twice; the calls for the Services come before those for the
\* ConfigMaps, and a failure with a Service leaves no call for a ConfigMap
\* and the ConfigMaps as they were; every Service that a call before the
\* failure created or patched is in the namespace as written.
C12_ApplyNotTransactional ==
    (handler = "apply" /\ outcome = "raised") =>
        /\ calls # <<>>
        /\ \A i \in 1..Len(calls) : (calls[i].code # "ok") <=> (i = Len(calls))
        /\ \A i, j \in 1..Len(calls) :
             (i < j) =>
                /\ <<calls[i].verb, calls[i].kind, calls[i].name>> #
                   <<calls[j].verb, calls[j].kind, calls[j].name>>
                /\ calls[i].kind = "ConfigMap" => calls[j].kind = "ConfigMap"
        /\ calls[1].kind = "Service"
        /\ Len(calls) <= 2 * Len(_services) =>
             /\ \A i \in 1..Len(calls) : calls[i].kind = "Service"
             /\ cluster.configmaps = before.configmaps
        /\ \A i \in 1..Len(calls) :
             (calls[i].kind = "Service" /\ IsMutation(calls[i]) /\ calls[i].code = "ok") =>
                \E o \in cluster.services :
                    o.name = calls[i].name /\ o.body = calls[i].body

\* apply has created the Service and then failed on the ConfigMap: the
\* Service is there, the ConfigMap is not.
C12_Witness ==
    /\ handler = "apply" /\ outcome = "raised"
    /\ Len(calls) = 4
    /\ calls[2].verb = "create" /\ calls[2].code = "ok"
    /\ calls[4].kind = "ConfigMap" /\ calls[4].code = "500"
    /\ Items(before, "Service", ServiceName) = {}
    /\ Items(cluster, "Service", ServiceName) # {}
    /\ Items(cluster, "ConfigMap", ConfigMapName) = {}

----------------------------------------------------------------------------
(* More properties of the charm (checked under Spec) *)

\* What the patch would add besides the sentinel is missing from the live
\* StatefulSet: the init-containers, the limits, or the stdin and tty flags.
Unrepaired ==
    \/ \E i \in 1..Len(add_spgwc_init_containers) :
         Occurrences(add_spgwc_init_containers[i], sts.init_containers) = 0
    \/ sts.containers[ContainerIndex + 1].resources # Limits
    \/ ~sts.containers[ContainerIndex + 1].stdin
    \/ ~sts.containers[ContainerIndex + 1].tty

\* C13: the sentinel is the sole drift check.  From a state in which the
\* sentinel is in containers[1].env, a config-changed (an event or a
\* re-delivery) issues no patch and leaves the StatefulSet as it is, whatever
\* else the StatefulSet lacks; so a StatefulSet that has the sentinel and
\* lacks init-containers, limits or flags stays so for ever.
C13_SentinelSoleCheck ==
    /\ [][ (SentinelPresent /\ handler' = "config-changed" /\ ConfigChanged) =>
              (StsPatches(calls') = 0 /\ sts' = sts) ]_vars
    /\ [][ (SentinelPresent /\ Unrepaired) => (SentinelPresent /\ Unrepaired)' ]_vars

\* A config-changed has passed the auth check, read a StatefulSet that has
\* the sentinel and none of the rest, and ended Active without a write.
C13_Witness ==
    /\ handler = "config-changed" /\ outcome = "ok" /\ status = "Active"
    /\ SentinelPresent
    /\ sts.containers[ContainerIndex + 1].resources = NoLimits
    /\ sts.init_containers = << "charm-init" >>
    /\ Count(calls, "read", "StatefulSet", {"ok"}) = 1
    /\ patchCalls = 0

IsStsPatch(c) == c.verb = "patch" /\ c.kind = "StatefulSet"

C17_FinalStatus ==
    /\ (handler = "config-changed" /\ outcome = "ok") => status = "Active"
    /\ (handler = "config-changed" /\ outcome = "deferred") => status = "Blocked"
    /\ status # "Maintenance: waiting for changes to apply"

\* A re-delivered config-changed has patched the StatefulSet and left the
\* unit Active, after the same event had been deferred.
C17_Witness ==
    /\ handler = "config-changed" /\ delivery = "redeliver" /\ outcome = "ok"
    /\ StsPatches(calls) = 1
    /\ patchOks = 1
    /\ status = "Active"

\* The framework runs one of the handlers that start with the auth check.
AuthedHandling == \E kind \in Kinds : Emit(kind) \/ Redeliver(kind)

\* C16: the auth flag is monotone and memoized.  _authed becomes True only
\* in a handling whose probe was answered ok; only the start of a new charm
\* process makes it False again; and no handling that starts with _authed
\* True issues a probe, defers or sets the status to Blocked, whether or not
\* the permission is still granted (a step from such a state to a state
\* that shows a probe, a deferral or a new Blocked is not a handling).
C16_AuthMemoized ==
    [][ /\ (~authed /\ authed') => ProbeCode(calls') = "ok"
        /\ (authed /\ ~authed') => NewProcess
        /\ ( /\ authed
              /\ \/ Count(calls', "list", "ClusterRole", Codes) # 0
                 \/ outcome' = "deferred"
                 \/ status' = "Blocked" /\ status # "Blocked" )
              => ~AuthedHandling ]_vars

\* The permission has been revoked, and a handler of the same charm
\* instance has passed the auth check without a probe and gone on to the
\* cluster.
C16_Witness ==
    /\ authed /\ ~trusted
    /\ handler \in Kinds /\ outcome = "ok"
    /\ calls # <<>>
    /\ ProbeCode(calls) = "none"

----------------------------------------------------------------------------
(* More properties of pebble-ready (checked under PebbleSpec) *)

\* C18: ordering and start-once of pebble-ready.  The calls of a handling
\* are, in this order: one push per matched file, scripts first, each to its
\* destination; add_layer; get_service; start.  start is called if and only
\* if get_service was answered and the service was not running.  A handling
\* that completes leaves every matched file in the container, the layer
\* added, the service running and the status Active; one that finds the
\* service running issues no start call.
C18_PebbleReadyOrder ==
    [][ PebbleReady =>
          LET n == Len(Matched(workload))
          IN  /\ Len(calls') <= n + 3
              /\ \A i \in 1..Len(calls') :
                   /\ i <= n => /\ calls'[i].verb = "push"
                                /\ calls'[i].name = Destination(workload, i)
                                /\ calls'[i].body.data = Matched(workload)[i].data
                   /\ i = n + 1 => calls'[i].verb = "add_layer"
                   /\ i = n + 2 => calls'[i].verb = "get_service"
                   /\ i = n + 3 => calls'[i].verb = "start"
              /\ (Len(calls') = n + 3) <=>
                   /\ Len(calls') >= n + 2
                   /\ calls'[n + 2].code = "ok"
                   /\ ~workload.running
              /\ outcome' = "ok" =>
                   /\ Len(calls') >= n + 2
                   /\ \A i \in 1..n : \E f \in workload'.pushed :
                                          f.path = Destination(workload, i)
                   /\ workload'.layer
                   /\ workload'.running
                   /\ status' = "Active"
              /\ workload.running =>
                   \A i \in 1..Len(calls') : calls'[i].verb # "start" ]_vars

\* pebble-ready has been handled again while the service ran: the files
\* were pushed, the layer added, the service asked for, and nothing started.
C18_Witness ==
    /\ handler = "pebble-ready" /\ outcome = "ok"
    /\ Len(Matched(workload)) >= 2
    /\ Len(calls) = Len(Matched(workload)) + 2
    /\ calls[Len(calls)].verb = "get_service"
    /\ calls[Len(calls)].body.running
    /\ workload.running /\ status = "Active"

----------------------------------------------------------------------------
(* add_container_resource_limit (checked under LimitSpec) *)

\* C19: add_container_resource_limit terminates for every list of
\* containers: once its body runs on a list it eventually returns, and when
\* it has returned every container from index 1 to the end of the list has
\* the resource requirements.
C19_LimitTerminates ==
    /\ (loop.pc = "while") ~> (loop.pc = "done")
    /\ [](loop.pc = "done" =>
            \A i \in 2..Len(loop.containers) : loop.containers[i] = SmallLimits)

----------------------------------------------------------------------------
(* Reconcilers side by side (checked under ConcSpec) *)

====
